---- MODULE Spec2Model ----
(***************************************************************************)
(* A model of the poll-based computations of async/src/main.rs: the leaf   *)
(* SocketRead, the combinators Join and AndThenFut, and the readiness      *)
(* source (Socket) they register their wake callback with.                 *)
(*                                                                         *)
(* A poll is one atomic call.  What the call did is kept as a log of       *)
(* events in the order the code executes them (poll, read, register, take, *)
(* ret), each tagged with the path of the node inside the computation.     *)
(*                                                                         *)
(* Spec polls one computation directly, with any pattern of readiness.     *)
(* SpecDriver runs two tasks under a driver loop with a run queue, a wait  *)
(* set and identity-carrying Wakers; the source has no such loop (it calls *)
(* futures::executor::block_on), so the loop follows the design document.  *)
(* SpecLeafFair is that loop with leaf tasks and a loop that keeps running.*)
(* SpecBlockOn is the loop with one root, an AndThen, as block_on runs it.  *)
(*                                                                         *)
(* SpecDeque applies the operations of the doubly linked list of           *)
(* chapter_4_5 (reference-counted nodes) and SpecStack those of the singly *)
(* linked list of chapter_2_3, each next to the sequence it stands for.    *)
(***************************************************************************)
EXTENDS Integers, Sequences, FiniteSets, TLC

\* Largest payload a socket delivers (payloads are 1..MaxVal).
MaxVal == 2
\* Most invocations of one Waker by holders of its clones between two steps
\* of its task.
MaxWakes == 2

Sockets == {"s1", "s2"}
Wakes == {"w1", "w2"}
Values == 1..MaxVal
NoWake == "none"
NoData == 0

Tasks == {"t1", "t2"}
NoTask == "none"
\* The Waker of a task carries the task's identity and nothing else.
WakerOf(tk) == IF tk = "t1" THEN "w1" ELSE "w2"
TaskOf(w) == IF w = "w1" THEN "t1" ELSE "t2"
\* The socket a task's leaves read from.
SocketOf(tk) == IF tk = "t1" THEN "s1" ELSE "s2"

VARIABLES
    shape,   \* the computation as constructed (never changes)
    fut,     \* the computation as it is now
    socks,   \* socket -> [data, cb]: buffered payload and registered callback
    last,    \* the latest poll call on fut: its arguments, result and log
    done,    \* paths of the nodes that have returned Ready at least once
    stepped, \* paths of the nodes that have been polled at least once
             \* (under the driver loop: pairs <<task, path>>)
    woken,   \* the wake callbacks the sockets have invoked
    \* the driver loop
    taskFut,    \* task -> its root computation (None once dropped)
    taskSt,     \* task -> "runnable", "running", "sleeping", "done", "dropped"
    ready,      \* task -> its "ready to poll" flag
    runQueue,   \* the runnable tasks, in order
    waitSet,    \* the sleeping tasks
    current,    \* the task popped from the run queue, or NoTask
    dpc,        \* where the loop is: "idle", "step", "polled", "settle", "parked", "stopped"
    stepRes,    \* the result of the latest step of current
    issued,     \* tasks whose Waker has been handed to a source
    wakesSince, \* task -> invocations of its Waker since its latest step
    lastWake,   \* the latest Waker invocation: the task, and whether it was gone
    \* the doubly linked list of chapter_4_5
    dlist,   \* the List: head, tail and the reference-counted nodes
    deque,   \* the sequence the list stands for, front first
    dret,    \* the latest operation on the list and what it returned
    diter,   \* the IntoIter the list was moved into, if any
    \* the singly linked list of chapter_2_3
    slist,   \* the List: head, each node owning the next
    sref,    \* the stack the list stands for, top first
    sret,    \* the latest operation on the list and what it returned
    siter    \* the iterator over the list, if any

pvars == <<shape, fut, last, done, stepped, woken>>
dvars == <<taskFut, taskSt, ready, runQueue, waitSet, current, dpc, stepRes,
           issued, wakesSince, lastWake>>
lvars == <<dlist, deque, dret, diter>>
svars == <<slist, sref, sret, siter>>
xvars == <<lvars, svars>>
vars == <<shape, fut, socks, last, done, stepped, woken, taskFut, taskSt, ready,
          runQueue, waitSet, current, dpc, stepRes, issued, wakesSince, lastWake,
          dlist, deque, dret, diter, slist, sref, sret, siter>>

---------------------------------------------------------------------------
(* Computations.  Option<F> is modelled by None or the computation.        *)

None == [kind |-> "none"]
SocketRead(s) == [kind |-> "leaf", socket |-> s]
Join(x, y) == [kind |-> "join", a |-> x, b |-> y]
AndThenFut(x, y) == [kind |-> "andthen", first |-> x, second |-> y]

is_none(o) == o.kind = "none"

NoSock == "none"
NoRes == "none"
\* An event of a poll call: what was done (op), by the node at which path
\* (at), on which socket, with which callback, payload or result.
Event(op, at, s, w, v, r) ==
    [op |-> op, at |-> at, sock |-> s, wake |-> w, val |-> v, res |-> r]
Ev(op, at, s, w, v) == Event(op, at, s, w, v, NoRes)
Ret(at, r, v) == Event("ret", at, NoSock, NoWake, v, r)

\* Poll<T>: Ready(val) or Pending.
Outcome(f, r, v, e) == [fut |-> f, res |-> r, val |-> v, env |-> e]

Logged(env, ev) == [env EXCEPT !.log = Append(@, ev)]

---------------------------------------------------------------------------
(* The readiness source.                                                   *)

has_data_to_read(ss, s) == ss[s].data # NoData

\* read_buf: hands out the buffered payload, which leaves the buffer.
read_buf(ss, s) == [ss EXCEPT ![s].data = NoData]

\* set_readable_callback: the callback replaces the one registered before.
set_readable_callback(ss, s, w) == [ss EXCEPT ![s].cb = w]

---------------------------------------------------------------------------
(* poll                                                                    *)

\* Mutant: Pending is returned without registering the callback.
SocketReadPollNoRegister(f, wake, path, env) ==
    LET s == f.socket
        e0 == Logged(env, Ev("poll", path, s, wake, env.socks[s].data))
    IN  IF has_data_to_read(e0.socks, s)
        THEN LET v == e0.socks[s].data
                 e1 == Logged([e0 EXCEPT !.socks = read_buf(@, s)],
                              Ev("read", path, s, NoWake, v))
             IN  Outcome(f, "Ready", v, Logged(e1, Ret(path, "Ready", v)))
        ELSE Outcome(f, "Pending", NoData, Logged(e0, Ret(path, "Pending", NoData)))

\* Mutant: a callback is registered only when the socket holds none.
SocketReadPollKeepFirst(f, wake, path, env) ==
    LET s == f.socket
        e0 == Logged(env, Ev("poll", path, s, wake, env.socks[s].data))
    IN  IF has_data_to_read(e0.socks, s)
        THEN LET v == e0.socks[s].data
                 e1 == Logged([e0 EXCEPT !.socks = read_buf(@, s)],
                              Ev("read", path, s, NoWake, v))
             IN  Outcome(f, "Ready", v, Logged(e1, Ret(path, "Ready", v)))
        ELSE LET w == IF e0.socks[s].cb = NoWake THEN wake ELSE e0.socks[s].cb
                 e1 == Logged([e0 EXCEPT !.socks = set_readable_callback(@, s, w)],
                              Ev("register", path, s, w, NoData))
             IN  Outcome(f, "Pending", NoData,
                         Logged(e1, Ret(path, "Pending", NoData)))

SocketReadPoll(f, wake, path, env) ==
    LET s == f.socket
        e0 == Logged(env, Ev("poll", path, s, wake, env.socks[s].data))
    IN  IF has_data_to_read(e0.socks, s)
        THEN LET v == e0.socks[s].data
                 e1 == Logged([e0 EXCEPT !.socks = read_buf(@, s)],
                              Ev("read", path, s, NoWake, v))
             IN  Outcome(f, "Ready", v,
                         Logged(e1, Ret(path, "Ready", v)))
        ELSE LET e1 == Logged([e0 EXCEPT !.socks = set_readable_callback(@, s, wake)],
                              Ev("register", path, s, wake, NoData))
             IN  Outcome(f, "Pending", NoData,
                         Logged(e1, Ret(path, "Pending", NoData)))

RECURSIVE Poll(_, _, _, _)

\* Mutant: a child that returned Ready stays in its slot.
JoinSlotKeep(slot, name, wake, path, env) ==
    IF is_none(slot)
    THEN [slot |-> slot, env |-> env]
    ELSE LET r == Poll(slot, wake, Append(path, name), env)
         IN  [slot |-> r.fut, env |-> r.env]

\* One child slot of a Join: poll the child if the slot is occupied and
\* take() it out of the slot when it returns Ready.
JoinSlot(slot, name, wake, path, env) ==
    IF is_none(slot)
    THEN [slot |-> slot, env |-> env]
    ELSE LET r == Poll(slot, wake, Append(path, name), env)
         IN  IF r.res = "Ready"
             THEN [slot |-> None,
                   env |-> Logged(r.env, Ev("take", Append(path, name), NoSock, NoWake, NoData))]
             ELSE [slot |-> r.fut, env |-> r.env]

\* Mutant: Ready as soon as one slot is empty.
JoinResultEither(a, b) == IF is_none(a) \/ is_none(b) THEN "Ready" ELSE "Pending"

JoinResult(a, b) == IF is_none(a) /\ is_none(b) THEN "Ready" ELSE "Pending"

\* Mutant: slot b is visited before slot a.
JoinPollBFirst(f, wake, path, env) ==
    LET e0 == Logged(env, Ev("poll", path, NoSock, wake, NoData))
        rb == JoinSlot(f.b, "b", wake, path, e0)
        ra == JoinSlot(f.a, "a", wake, path, rb.env)
        res == JoinResult(ra.slot, rb.slot)
    IN  Outcome(Join(ra.slot, rb.slot), res, NoData,
                Logged(ra.env, Ret(path, res, NoData)))

\* Mutant: when child a returns Pending the call returns at once and child
\* b is not polled.
JoinPollShortCircuit(f, wake, path, env) ==
    LET e0 == Logged(env, Ev("poll", path, NoSock, wake, NoData))
        ra == JoinSlot(f.a, "a", wake, path, e0)
        rb == IF is_none(ra.slot) THEN JoinSlot(f.b, "b", wake, path, ra.env)
              ELSE [slot |-> f.b, env |-> ra.env]
        res == JoinResult(ra.slot, rb.slot)
    IN  Outcome(Join(ra.slot, rb.slot), res, NoData,
                Logged(rb.env, Ret(path, res, NoData)))

JoinPoll(f, wake, path, env) ==
    LET e0 == Logged(env, Ev("poll", path, NoSock, wake, NoData))
        ra == JoinSlot(f.a, "a", wake, path, e0)
        rb == JoinSlot(f.b, "b", wake, path, ra.env)
        res == JoinResult(ra.slot, rb.slot)
    IN  Outcome(Join(ra.slot, rb.slot), res, NoData,
                Logged(rb.env, Ret(path, res, NoData)))

\* Mutant: the second child is polled whatever the first returned.
AndThenPollEager(f, wake, path, env) ==
    LET e0 == Logged(env, Ev("poll", path, NoSock, wake, NoData))
        r1 == Poll(f.first, wake, Append(path, "first"), e0)
        first1 == IF is_none(f.first) \/ r1.res = "Ready" THEN None ELSE r1.fut
        e1 == IF is_none(f.first) THEN e0
              ELSE IF r1.res = "Ready"
                   THEN Logged(r1.env, Ev("take", Append(path, "first"),
                                          NoSock, NoWake, NoData))
                   ELSE r1.env
        r2 == Poll(f.second, wake, Append(path, "second"), e1)
        res == IF is_none(first1) THEN r2.res ELSE "Pending"
    IN  Outcome(AndThenFut(first1, r2.fut), res, NoData,
                Logged(r2.env, Ret(path, res, NoData)))

\* Mutant: the call in which the first child returns Ready returns Pending
\* and leaves the second child for the next call.
AndThenPollWasted(f, wake, path, env) ==
    LET e0 == Logged(env, Ev("poll", path, NoSock, wake, NoData))
        r1 == Poll(f.first, wake, Append(path, "first"), e0)
    IN  IF ~is_none(f.first)
        THEN IF r1.res = "Pending"
             THEN Outcome(AndThenFut(r1.fut, f.second), "Pending", NoData,
                          Logged(r1.env, Ret(path, "Pending", NoData)))
             ELSE Outcome(AndThenFut(None, f.second), "Pending", NoData,
                          Logged(Logged(r1.env, Ev("take", Append(path, "first"),
                                                   NoSock, NoWake, NoData)),
                                 Ret(path, "Pending", NoData)))
        ELSE LET r2 == Poll(f.second, wake, Append(path, "second"), e0)
             IN  Outcome(AndThenFut(None, r2.fut), r2.res, NoData,
                         Logged(r2.env, Ret(path, r2.res, NoData)))

AndThenPoll(f, wake, path, env) ==
    LET e0 == Logged(env, Ev("poll", path, NoSock, wake, NoData))
        r1 == Poll(f.first, wake, Append(path, "first"), e0)
        firstPending == ~is_none(f.first) /\ r1.res = "Pending"
    IN  IF firstPending
        THEN Outcome(AndThenFut(r1.fut, f.second), "Pending", NoData,
                     Logged(r1.env, Ret(path, "Pending", NoData)))
        ELSE LET e1 == IF is_none(f.first) THEN e0
                       ELSE Logged(r1.env, Ev("take", Append(path, "first"),
                                              NoSock, NoWake, NoData))
                 r2 == Poll(f.second, wake, Append(path, "second"), e1)
             IN  Outcome(AndThenFut(None, r2.fut), r2.res, NoData,
                         Logged(r2.env, Ret(path, r2.res, NoData)))

Poll(f, wake, path, env) ==
    CASE f.kind = "leaf" -> SocketReadPoll(f, wake, path, env)
      [] f.kind = "join" -> JoinPoll(f, wake, path, env)
      [] f.kind = "andthen" -> AndThenPoll(f, wake, path, env)

---------------------------------------------------------------------------
(* Reading a log.                                                          *)

Idx(log, op, at) == {i \in 1..Len(log) : log[i].op = op /\ log[i].at = at}
Has(log, op, at) == Idx(log, op, at) # {}
Returned(log, at, res) ==
    \E i \in Idx(log, "ret", at) : log[i].res = res
ReadyPaths(log) ==
    {log[i].at : i \in {j \in 1..Len(log) : log[j].op = "ret" /\ log[j].res = "Ready"}}
PolledPaths(log) ==
    {log[i].at : i \in {j \in 1..Len(log) : log[j].op = "poll"}}

---------------------------------------------------------------------------
(* The doubly linked list of chapter_4_5: nodes are shared through         *)
(* reference-counted links (Rc<RefCell<Node>>).  A node is an entry of a   *)
(* table of nodes with its strong count; a Link is a node's identity or    *)
(* NoLink.                                                                 *)

\* Longest list built.
MaxLen == 3
\* Largest element stored (elements are 1..MaxElem).
MaxElem == 2

Elems == 1..MaxElem
NoElem == 0
NodeIds == 1..MaxLen
NoLink == 0

\* A slot of the table that holds no node.
Free == [elem |-> NoElem, next |-> NoLink, prev |-> NoLink, rc |-> 0]

\* The allocator hands out the lowest slot that holds no node.
FreshNode(nodes) ==
    CHOOSE n \in NodeIds :
        nodes[n] = Free /\ \A m \in NodeIds : nodes[m] = Free => n <= m

\* Node::new: a node with no links, owned by one Rc.
Node_new(nodes, n, elem) ==
    [nodes EXCEPT ![n] = [elem |-> elem, next |-> NoLink, prev |-> NoLink, rc |-> 1]]

\* Rc::clone
clone(nodes, n) == [nodes EXCEPT ![n].rc = @ + 1]

\* Dropping an Rc: the count goes down, and with the last Rc the node is
\* freed and the links it holds are dropped in turn.
RECURSIVE DropRc(_, _)
DropRc(nodes, n) ==
    IF n = NoLink THEN nodes
    ELSE IF nodes[n].rc > 1 THEN [nodes EXCEPT ![n].rc = @ - 1]
    ELSE DropRc(DropRc([nodes EXCEPT ![n] = Free], nodes[n].next), nodes[n].prev)

\* Assigning to a link field drops the link it held.
set_next(nodes, at, link) == DropRc([nodes EXCEPT ![at].next = link], nodes[at].next)
set_prev(nodes, at, link) == DropRc([nodes EXCEPT ![at].prev = link], nodes[at].prev)

List_new == [head |-> NoLink, tail |-> NoLink, nodes |-> [n \in NodeIds |-> Free]]

\* Mutant: the old head's prev is not pointed at the new node.
push_front_no_prev(l, elem) ==
    LET n == FreshNode(l.nodes)
        n0 == Node_new(l.nodes, n, elem)
        h == l.head
    IN  IF h # NoLink
        THEN [head |-> n, tail |-> l.tail, nodes |-> set_next(n0, n, h)]
        ELSE [head |-> n, tail |-> n, nodes |-> DropRc(clone(n0, n), l.tail)]

push_front(l, elem) ==
    LET n == FreshNode(l.nodes)
        n0 == Node_new(l.nodes, n, elem)
        h == l.head
    IN  IF h # NoLink
        THEN [head |-> n, tail |-> l.tail,
              nodes |-> set_next(set_prev(clone(n0, n), h, n), n, h)]
        ELSE [head |-> n, tail |-> n, nodes |-> DropRc(clone(n0, n), l.tail)]

\* Mutant: the new node is linked in at the front.
push_back_at_front(l, elem) == push_front(l, elem)

push_back(l, elem) ==
    LET n == FreshNode(l.nodes)
        n0 == Node_new(l.nodes, n, elem)
        t == l.tail
    IN  IF t # NoLink
        THEN [head |-> l.head, tail |-> n,
              nodes |-> set_prev(set_next(clone(n0, n), t, n), n, t)]
        ELSE [head |-> n, tail |-> n, nodes |-> DropRc(clone(n0, n), l.head)]

\* Rc::try_unwrap(node).ok().unwrap().into_inner().elem on node n of list l:
\* with one strong reference the node is taken apart and its element
\* returned; with more the unwrap of None panics.  strong is the count that
\* try_unwrap finds.
try_unwrap(l, n) ==
    IF l.nodes[n].rc = 1
    THEN [list |-> [l EXCEPT !.nodes = DropRc(DropRc([l.nodes EXCEPT ![n] = Free],
                                                     l.nodes[n].next),
                                              l.nodes[n].prev)],
          val |-> l.nodes[n].elem, panic |-> FALSE, strong |-> l.nodes[n].rc]
    ELSE [list |-> [l EXCEPT !.nodes = DropRc(l.nodes, n)],
          val |-> NoElem, panic |-> TRUE, strong |-> l.nodes[n].rc]

\* Mutant: the next node's prev link to the removed node is left in place.
pop_front_keeps_prev(l) ==
    IF l.head = NoLink
    THEN [list |-> l, val |-> NoElem, panic |-> FALSE, strong |-> 0]
    ELSE LET n == l.head
             next == l.nodes[n].next
             taken == [l.nodes EXCEPT ![n].next = NoLink]
         IN  IF next # NoLink
             THEN try_unwrap([head |-> next, tail |-> l.tail, nodes |-> taken], n)
             ELSE try_unwrap([head |-> NoLink, tail |-> NoLink,
                              nodes |-> DropRc(taken, l.tail)], n)

pop_front(l) ==
    IF l.head = NoLink
    THEN [list |-> l, val |-> NoElem, panic |-> FALSE, strong |-> 0]
    ELSE LET n == l.head
             next == l.nodes[n].next
             taken == [l.nodes EXCEPT ![n].next = NoLink]
         IN  IF next # NoLink
             THEN try_unwrap([head |-> next, tail |-> l.tail,
                              nodes |-> DropRc([taken EXCEPT ![next].prev = NoLink],
                                               taken[next].prev)], n)
             ELSE try_unwrap([head |-> NoLink, tail |-> NoLink,
                              nodes |-> DropRc(taken, l.tail)], n)

pop_back(l) ==
    IF l.tail = NoLink
    THEN [list |-> l, val |-> NoElem, panic |-> FALSE, strong |-> 0]
    ELSE LET n == l.tail
             prev == l.nodes[n].prev
             taken == [l.nodes EXCEPT ![n].prev = NoLink]
         IN  IF prev # NoLink
             THEN try_unwrap([head |-> l.head, tail |-> prev,
                              nodes |-> DropRc([taken EXCEPT ![prev].next = NoLink],
                                               taken[prev].next)], n)
             ELSE try_unwrap([head |-> NoLink, tail |-> NoLink,
                              nodes |-> DropRc(taken, l.head)], n)

\* Dropping the list: List has no Drop impl, so its fields are dropped in
\* the order they are declared, head and then tail.
List_drop(l) ==
    [head |-> NoLink, tail |-> NoLink,
     nodes |-> DropRc(DropRc(l.nodes, l.head), l.tail)]

peek_front(l) == IF l.head = NoLink THEN NoElem ELSE l.nodes[l.head].elem
peek_back(l) == IF l.tail = NoLink THEN NoElem ELSE l.nodes[l.tail].elem

\* IntoIter: the list itself, consumed from either end.
IntoIter_next(it) == pop_front(it)

\* Mutant: next_back takes from the front.
IntoIter_next_back_front(it) == pop_front(it)

IntoIter_next_back(it) == pop_back(it)

\* The elements reached from the head along next, and from the tail along
\* prev (at most MaxLen + 1 of them, which a cycle would reach).
RECURSIVE Along(_, _, _, _)
Along(nodes, n, dir, fuel) ==
    IF n = NoLink \/ fuel = 0 THEN <<>>
    ELSE <<nodes[n].elem>>
             \o Along(nodes, IF dir = "next" THEN nodes[n].next ELSE nodes[n].prev,
                      dir, fuel - 1)
FrontToBack(l) == Along(l.nodes, l.head, "next", MaxLen + 1)
BackToFront(l) == Along(l.nodes, l.tail, "prev", MaxLen + 1)

Reverse(q) == [i \in 1..Len(q) |-> q[Len(q) + 1 - i]]

NoOp == [op |-> "none", arg |-> NoElem, val |-> NoElem, panic |-> FALSE, pre |-> <<>>]
Op(op, arg, val, panic, pre) ==
    [op |-> op, arg |-> arg, val |-> val, panic |-> panic, pre |-> pre]
NoIntoIter == [active |-> FALSE, orig |-> <<>>, front |-> <<>>, back |-> <<>>]

---------------------------------------------------------------------------
(* The singly linked list of chapter_2_3: each node owns the next one      *)
(* (Box<Node>), so a Link is None or the node itself.                      *)

Node(elem, next) == [kind |-> "node", elem |-> elem, next |-> next]

Stack_new == [head |-> None]

\* Mutant: the new node is put behind the head node.
push_second(l, elem) ==
    IF is_none(l.head) THEN [head |-> Node(elem, None)]
    ELSE [head |-> Node(l.head.elem, Node(elem, l.head.next))]

push(l, elem) == [head |-> Node(elem, l.head)]

pop(l) ==
    IF is_none(l.head)
    THEN [list |-> l, val |-> NoElem]
    ELSE [list |-> [head |-> l.head.next], val |-> l.head.elem]

peek(l) == IF is_none(l.head) THEN NoElem ELSE l.head.elem

into_iter(l) == l
Stack_IntoIter_next(it) == pop(it)

\* Iter and IterMut hold a reference to the node to yield next.
iter(l) == l.head
iter_mut(l) == l.head

\* Mutant: the cursor moves on by two nodes.
Iter_next_skips(cur) ==
    IF is_none(cur)
    THEN [cur |-> cur, val |-> NoElem]
    ELSE [cur |-> IF is_none(cur.next) THEN None ELSE cur.next.next, val |-> cur.elem]

Iter_next(cur) ==
    IF is_none(cur)
    THEN [cur |-> cur, val |-> NoElem]
    ELSE [cur |-> cur.next, val |-> cur.elem]

IterMut_next(cur) ==
    IF is_none(cur)
    THEN [cur |-> None, val |-> NoElem]
    ELSE [cur |-> cur.next, val |-> cur.elem]

\* The elements of a link, head first.
RECURSIVE Elements(_)
Elements(link) ==
    IF is_none(link) THEN <<>> ELSE <<link.elem>> \o Elements(link.next)

NoIter == [kind |-> "none", cur |-> None, orig |-> <<>>, yielded |-> <<>>]

\* No list is in use.
NoLists ==
    /\ dlist = List_new /\ deque = <<>> /\ dret = NoOp /\ diter = NoIntoIter
    /\ slist = Stack_new /\ sref = <<>> /\ sret = NoOp /\ siter = NoIter

---------------------------------------------------------------------------
(* The computations polled.                                                *)

Shapes ==
    {SocketRead(s) : s \in Sockets}
    \cup {Join(SocketRead(s), SocketRead(t)) : s, t \in Sockets}
    \cup {AndThenFut(SocketRead(s), SocketRead(t)) : s, t \in Sockets}
    \cup {Join(AndThenFut(SocketRead(s), SocketRead(t)), SocketRead(u)) :
              s, t, u \in Sockets}
    \cup {AndThenFut(Join(SocketRead(s), SocketRead(t)), SocketRead(u)) :
              s, t, u \in Sockets}

NoCall == [called |-> FALSE, wake |-> NoWake, res |-> "Pending", val |-> NoData,
           log |-> <<>>, pre |-> None, preDone |-> {},
           preSocks |-> [s \in Sockets |-> [data |-> NoData, cb |-> NoWake]],
           postSocks |-> [s \in Sockets |-> [data |-> NoData, cb |-> NoWake]]]

\* No driver runs: the computation is polled by hand.
NoDriver ==
    /\ taskFut = [tk \in Tasks |-> None]
    /\ taskSt = [tk \in Tasks |-> "dropped"]
    /\ ready = [tk \in Tasks |-> FALSE]
    /\ runQueue = <<>>
    /\ waitSet = {}
    /\ current = NoTask
    /\ dpc = "stopped"
    /\ stepRes = "Pending"
    /\ issued = {}
    /\ wakesSince = [tk \in Tasks |-> 0]
    /\ lastWake = [task |-> NoTask, stale |-> FALSE]

Init ==
    /\ shape \in Shapes
    /\ fut = shape
    /\ socks = [s \in Sockets |-> [data |-> NoData, cb |-> NoWake]]
    /\ last = NoCall
    /\ done = {}
    /\ stepped = {}
    /\ woken = {}
    /\ NoDriver
    /\ NoLists

\* A caller polls the computation, handing it the wake callback w.
Step(w) ==
    LET r == Poll(fut, w, <<>>, [socks |-> socks, log |-> <<>>])
    IN  /\ fut' = r.fut
        /\ socks' = r.env.socks
        /\ last' = [called |-> TRUE, wake |-> w, res |-> r.res, val |-> r.val,
                    log |-> r.env.log, pre |-> fut, preDone |-> done,
                    preSocks |-> socks, postSocks |-> r.env.socks]
        /\ done' = done \cup ReadyPaths(r.env.log)
        /\ stepped' = stepped \cup PolledPaths(r.env.log)
        /\ UNCHANGED <<shape, woken>>
        /\ UNCHANGED <<dvars, xvars>>

\* The socket becomes readable: it invokes the registered callback once
\* and forgets it.
DataArrives(s, v) ==
    /\ socks[s].data = NoData
    /\ socks' = [socks EXCEPT ![s] = [data |-> v, cb |-> NoWake]]
    /\ woken' = IF socks[s].cb = NoWake THEN woken ELSE woken \cup {socks[s].cb}
    /\ UNCHANGED <<shape, fut, last, done, stepped>>
    /\ UNCHANGED <<dvars, xvars>>

Next ==
    \/ \E w \in Wakes : Step(w)
    \/ \E s \in Sockets, v \in Values : DataArrives(s, v)

Spec == Init /\ [][Next]_vars

---------------------------------------------------------------------------
(* The driver loop: a run queue of runnable tasks, a wait set of sleeping  *)
(* tasks, and Wakers that carry a task's identity.  One pass of the loop   *)
(* is three steps (pop, step, retire or suspend), so that a Waker invoked  *)
(* by another thread can fall between any two of them.                     *)

TaskShapes(s) ==
    {SocketRead(s), Join(SocketRead(s), SocketRead(s)),
     AndThenFut(SocketRead(s), SocketRead(s))}

Live(tk) == taskSt[tk] \in {"runnable", "running", "sleeping"}

InQueue(tk) == \E i \in 1..Len(runQueue) : runQueue[i] = tk

Without(q, tk) == SelectSeq(q, LAMBDA x : x # tk)

\* submit: both tasks are submitted before the loop starts.
InitDriver ==
    /\ taskFut \in [Tasks -> UNION {TaskShapes(s) : s \in Sockets}]
    /\ \A tk \in Tasks : taskFut[tk] \in TaskShapes(SocketOf(tk))
    /\ taskSt = [tk \in Tasks |-> "runnable"]
    /\ ready = [tk \in Tasks |-> FALSE]
    /\ runQueue = <<"t1", "t2">>
    /\ waitSet = {}
    /\ current = NoTask
    /\ dpc = "idle"
    /\ stepRes = "Pending"
    /\ issued = {}
    /\ wakesSince = [tk \in Tasks |-> 0]
    /\ lastWake = [task |-> NoTask, stale |-> FALSE]
    /\ socks = [s \in Sockets |-> [data |-> NoData, cb |-> NoWake]]
    /\ shape = None /\ fut = None /\ last = NoCall
    /\ done = {} /\ stepped = {} /\ woken = {}
    /\ NoLists

\* Main loop: pop a runnable task.
Pop ==
    /\ dpc = "idle"
    /\ runQueue # <<>>
    /\ current' = Head(runQueue)
    /\ runQueue' = Tail(runQueue)
    /\ taskSt' = [taskSt EXCEPT ![Head(runQueue)] = "running"]
    /\ ready' = [ready EXCEPT ![Head(runQueue)] = FALSE]
    /\ dpc' = "step"
    /\ UNCHANGED <<taskFut, waitSet, stepRes, issued, wakesSince, lastWake>>
    /\ UNCHANGED <<socks, pvars, xvars>>

\* Step it with a context bound to the task's identity.
StepTask ==
    /\ dpc = "step"
    /\ LET r == Poll(taskFut[current], WakerOf(current), <<>>,
                     [socks |-> socks, log |-> <<>>])
       IN  /\ taskFut' = [taskFut EXCEPT ![current] = r.fut]
           /\ socks' = r.env.socks
           /\ stepRes' = r.res
           /\ issued' = IF \E i \in 1..Len(r.env.log) : r.env.log[i].op = "register"
                        THEN issued \cup {current} ELSE issued
           /\ done' = done \cup {<<current, q>> : q \in ReadyPaths(r.env.log)}
           /\ stepped' = stepped \cup {<<current, q>> : q \in PolledPaths(r.env.log)}
    /\ wakesSince' = [wakesSince EXCEPT ![current] = 0]
    /\ dpc' = "polled"
    /\ UNCHANGED <<taskSt, ready, runQueue, waitSet, current, lastWake>>
    /\ UNCHANGED <<shape, fut, last, woken, xvars>>

\* Ready: the task is dropped.
Retire ==
    /\ dpc = "polled"
    /\ stepRes = "Ready"
    /\ taskSt' = [taskSt EXCEPT ![current] = "done"]
    /\ wakesSince' = [wakesSince EXCEPT ![current] = 0]
    /\ current' = NoTask
    /\ dpc' = "idle"
    /\ UNCHANGED <<taskFut, ready, runQueue, waitSet, stepRes, issued, lastWake>>
    /\ UNCHANGED <<socks, pvars, xvars>>

\* Mutant: the loop puts a task whose step returned Pending back in the run
\* queue by itself.
SuspendRequeues ==
    /\ dpc = "polled"
    /\ stepRes = "Pending"
    /\ runQueue' = Append(runQueue, current)
    /\ taskSt' = [taskSt EXCEPT ![current] = "runnable"]
    /\ current' = NoTask
    /\ dpc' = "idle"
    /\ UNCHANGED <<taskFut, ready, waitSet, stepRes, issued, wakesSince, lastWake>>
    /\ UNCHANGED <<socks, pvars, xvars>>

\* Pending: the task is moved to the wait set.  When its Waker was invoked
\* while it was being stepped its flag is set, and the loop goes on to act
\* on that invocation.
Suspend ==
    /\ dpc = "polled"
    /\ stepRes = "Pending"
    /\ waitSet' = waitSet \cup {current}
    /\ taskSt' = [taskSt EXCEPT ![current] = "sleeping"]
    /\ current' = NoTask
    /\ dpc' = IF ready[current] THEN "settle" ELSE "idle"
    /\ UNCHANGED <<taskFut, ready, runQueue, stepRes, issued, wakesSince, lastWake>>
    /\ UNCHANGED <<socks, pvars, xvars>>

\* The invocation that fell into the step acts now: the flagged task leaves
\* the wait set for the run queue (unless another invocation already moved
\* it, or it was dropped).
Settle ==
    /\ dpc = "settle"
    /\ LET flagged == {tk \in waitSet : ready[tk]}
       IN  /\ waitSet' = waitSet \ flagged
           /\ runQueue' = IF flagged = {} THEN runQueue
                          ELSE Append(runQueue, CHOOSE tk \in flagged : TRUE)
           /\ taskSt' = [tk \in Tasks |-> IF tk \in flagged THEN "runnable" ELSE taskSt[tk]]
    /\ ready' = [tk \in Tasks |-> FALSE]
    /\ dpc' = "idle"
    /\ UNCHANGED <<taskFut, current, stepRes, issued, wakesSince, lastWake>>
    /\ UNCHANGED <<socks, pvars, xvars>>

\* The blocking variant: nothing is runnable and some task sleeps.
Park ==
    /\ dpc = "idle"
    /\ runQueue = <<>>
    /\ waitSet # {}
    /\ dpc' = "parked"
    /\ UNCHANGED <<taskFut, taskSt, ready, runQueue, waitSet, current, stepRes,
                   issued, wakesSince, lastWake>>
    /\ UNCHANGED <<socks, pvars, xvars>>

\* Mutant: the loop ends as soon as the run queue is empty.
StopWhenQueueEmpty ==
    /\ dpc = "idle"
    /\ runQueue = <<>>
    /\ dpc' = "stopped"
    /\ UNCHANGED <<taskFut, taskSt, ready, runQueue, waitSet, current, stepRes,
                   issued, wakesSince, lastWake>>
    /\ UNCHANGED <<socks, pvars, xvars>>

\* The loop ends when the run queue and the wait set are both empty.
Stop ==
    /\ dpc = "idle"
    /\ runQueue = <<>>
    /\ waitSet = {}
    /\ dpc' = "stopped"
    /\ UNCHANGED <<taskFut, taskSt, ready, runQueue, waitSet, current, stepRes,
                   issued, wakesSince, lastWake>>
    /\ UNCHANGED <<socks, pvars, xvars>>

\* Mutant: every invocation puts the task in the run queue.
WakeAlwaysQueues(tk) ==
    /\ runQueue' = Append(runQueue, tk)
    /\ dpc' = IF dpc = "parked" THEN "idle" ELSE dpc
    /\ UNCHANGED <<waitSet, taskSt, ready>>

\* Mutant: an invocation for a task that is gone brings it back.
WakeRevives(tk) ==
    IF tk \in waitSet \/ ~Live(tk)
    THEN /\ waitSet' = waitSet \ {tk}
         /\ runQueue' = Append(runQueue, tk)
         /\ taskSt' = [taskSt EXCEPT ![tk] = "runnable"]
         /\ dpc' = IF dpc = "parked" THEN "idle" ELSE dpc
         /\ UNCHANGED ready
    ELSE IF tk = current
    THEN /\ ready' = [ready EXCEPT ![tk] = TRUE]
         /\ UNCHANGED <<waitSet, runQueue, taskSt, dpc>>
    ELSE UNCHANGED <<waitSet, runQueue, taskSt, ready, dpc>>

\* Mutant: a sleeping task becomes runnable but the parked loop is not woken.
WakeNoUnpark(tk) ==
    IF tk \in waitSet
    THEN /\ waitSet' = waitSet \ {tk}
         /\ runQueue' = Append(runQueue, tk)
         /\ taskSt' = [taskSt EXCEPT ![tk] = "runnable"]
         /\ UNCHANGED <<ready, dpc>>
    ELSE IF tk = current
    THEN /\ ready' = [ready EXCEPT ![tk] = TRUE]
         /\ UNCHANGED <<waitSet, runQueue, taskSt, dpc>>
    ELSE UNCHANGED <<waitSet, runQueue, taskSt, ready, dpc>>

\* Invoking the Waker of task tk: a sleeping task becomes runnable (and the
\* parked loop is woken), a task being stepped gets its flag set, and for a
\* task that is runnable already, completed or dropped nothing happens.
Wake(tk) ==
    IF tk \in waitSet
    THEN /\ waitSet' = waitSet \ {tk}
         /\ runQueue' = Append(runQueue, tk)
         /\ taskSt' = [taskSt EXCEPT ![tk] = "runnable"]
         /\ dpc' = IF dpc = "parked" THEN "idle" ELSE dpc
         /\ UNCHANGED ready
    ELSE IF tk = current
    THEN /\ ready' = [ready EXCEPT ![tk] = TRUE]
         /\ UNCHANGED <<waitSet, runQueue, taskSt, dpc>>
    ELSE UNCHANGED <<waitSet, runQueue, taskSt, ready, dpc>>

Min(x, y) == IF x < y THEN x ELSE y

\* What an invocation leaves behind for the properties to read.
Invoked(tk) ==
    /\ lastWake' = [task |-> tk, stale |-> ~Live(tk)]
    /\ wakesSince' = IF Live(tk)
                     THEN [wakesSince EXCEPT ![tk] = Min(@ + 1, MaxWakes)]
                     ELSE wakesSince

\* The socket becomes readable and invokes the Waker registered with it,
\* once.
SourceFires(s, v) ==
    /\ socks[s].data = NoData
    /\ socks' = [socks EXCEPT ![s] = [data |-> v, cb |-> NoWake]]
    /\ IF socks[s].cb = NoWake
       THEN UNCHANGED <<waitSet, runQueue, taskSt, ready, dpc, lastWake, wakesSince>>
       ELSE Wake(TaskOf(socks[s].cb)) /\ Invoked(TaskOf(socks[s].cb))
    /\ UNCHANGED <<taskFut, current, stepRes, issued>>
    /\ UNCHANGED <<pvars, xvars>>

\* Some holder of a clone of the task's Waker invokes it (again).
WakeAgain(tk) ==
    /\ tk \in issued
    /\ wakesSince[tk] < MaxWakes
    /\ Wake(tk)
    /\ Invoked(tk)
    /\ UNCHANGED <<taskFut, current, stepRes, issued>>
    /\ UNCHANGED <<socks, pvars, xvars>>

\* A task that has not reached Ready is dropped; its state is discarded.
\* The parked loop is woken to look at its queues again.
DropTask(tk) ==
    /\ Live(tk)
    /\ tk # current
    /\ taskSt' = [taskSt EXCEPT ![tk] = "dropped"]
    /\ taskFut' = [taskFut EXCEPT ![tk] = None]
    /\ runQueue' = Without(runQueue, tk)
    /\ waitSet' = waitSet \ {tk}
    /\ ready' = [ready EXCEPT ![tk] = FALSE]
    /\ wakesSince' = [wakesSince EXCEPT ![tk] = 0]
    /\ done' = {d \in done : d[1] # tk}
    /\ stepped' = {d \in stepped : d[1] # tk}
    /\ dpc' = IF dpc = "parked" THEN "idle" ELSE dpc
    /\ UNCHANGED <<current, stepRes, issued, lastWake>>
    /\ UNCHANGED <<socks, shape, fut, last, woken, xvars>>

\* The task's Waker was invoked and the task has not been stepped since.
Notified(tk) == Live(tk) /\ wakesSince[tk] > 0

DriverStep == Pop \/ StepTask \/ Retire \/ Suspend \/ Settle

NextDriver ==
    \/ Pop
    \/ StepTask
    \/ Retire
    \/ Suspend
    \/ Settle
    \/ Park
    \/ Stop
    \/ \E s \in Sockets, v \in Values : SourceFires(s, v)
    \/ \E tk \in Tasks : WakeAgain(tk)
    \/ \E tk \in Tasks : DropTask(tk)

SpecDriver == InitDriver /\ [][NextDriver]_vars

\* Both tasks are leaves, each reading its own socket.
InitLeafTasks ==
    /\ InitDriver
    /\ \A tk \in Tasks : taskFut[tk].kind = "leaf"

\* The loop keeps running: a pass that can be taken is taken.  The sources
\* and the holders of Wakers owe nothing.
SpecLeafFair == InitLeafTasks /\ [][NextDriver]_vars /\ WF_vars(DriverStep)

---------------------------------------------------------------------------
(* block_on(computation): the loop with one submitted root, which nobody   *)
(* else can drop.  The root is an AndThen of a leaf whose socket has no    *)
(* data until another thread delivers some, and a leaf whose socket has    *)
(* data from the start.                                                    *)

\* The submitted root (the other task identity is not in use).
Root == CHOOSE tk \in Tasks : taskSt[tk] # "dropped"

InitBlockOn ==
    /\ shape \in {AndThenFut(SocketRead(s), SocketRead(t)) : s, t \in Sockets}
    /\ shape.first.socket # shape.second.socket
    /\ \E root \in Tasks :
           /\ taskFut = [tk \in Tasks |-> IF tk = root THEN shape ELSE None]
           /\ taskSt = [tk \in Tasks |-> IF tk = root THEN "runnable" ELSE "dropped"]
           /\ runQueue = <<root>>
    /\ \E v \in Values :
           socks = [s \in Sockets |->
                       [data |-> IF s = shape.second.socket THEN v ELSE NoData,
                        cb |-> NoWake]]
    /\ ready = [tk \in Tasks |-> FALSE]
    /\ waitSet = {}
    /\ current = NoTask
    /\ dpc = "idle"
    /\ stepRes = "Pending"
    /\ issued = {}
    /\ wakesSince = [tk \in Tasks |-> 0]
    /\ lastWake = [task |-> NoTask, stale |-> FALSE]
    /\ fut = None /\ last = NoCall
    /\ done = {} /\ stepped = {} /\ woken = {}
    /\ NoLists

\* Another thread makes a socket readable on which a Waker is registered,
\* which invokes that Waker.
ExternalWake ==
    \E s \in Sockets, v \in Values : socks[s].cb # NoWake /\ SourceFires(s, v)

NextBlockOn ==
    \/ Pop
    \/ StepTask
    \/ Retire
    \/ Suspend
    \/ Settle
    \/ Park
    \/ Stop
    \/ ExternalWake
    \/ \E tk \in Tasks : WakeAgain(tk)

SpecBlockOn == InitBlockOn /\ [][NextBlockOn]_vars /\ WF_vars(DriverStep)

---------------------------------------------------------------------------
(* The loop with one submitted root that is a Join of two leaves, on two   *)
(* sources or on the same one.  The sources become readable at any time.   *)

InitJoinRoot ==
    /\ LET s == CHOOSE x \in Sockets : TRUE
       IN  shape \in {Join(SocketRead(s), SocketRead(t)) : t \in Sockets}
    /\ LET root == CHOOSE tk \in Tasks : TRUE
       IN  /\ taskFut = [tk \in Tasks |-> IF tk = root THEN shape ELSE None]
           /\ taskSt = [tk \in Tasks |-> IF tk = root THEN "runnable" ELSE "dropped"]
           /\ runQueue = <<root>>
    /\ socks = [s \in Sockets |-> [data |-> NoData, cb |-> NoWake]]
    /\ ready = [tk \in Tasks |-> FALSE]
    /\ waitSet = {}
    /\ current = NoTask
    /\ dpc = "idle"
    /\ stepRes = "Pending"
    /\ issued = {}
    /\ wakesSince = [tk \in Tasks |-> 0]
    /\ lastWake = [task |-> NoTask, stale |-> FALSE]
    /\ fut = None /\ last = NoCall
    /\ done = {} /\ stepped = {} /\ woken = {}
    /\ NoLists

NextJoinRoot ==
    \/ Pop
    \/ StepTask
    \/ Retire
    \/ Suspend
    \/ Settle
    \/ Park
    \/ Stop
    \/ \E s \in Sockets, v \in Values : SourceFires(s, v)
    \/ \E tk \in Tasks : WakeAgain(tk)

SpecJoinRoot == InitJoinRoot /\ [][NextJoinRoot]_vars /\ WF_vars(DriverStep)

---------------------------------------------------------------------------
(* The lists in use: a caller applies the operations of one list in any    *)
(* order, while nothing is polled and no loop runs.                        *)

NoPolls ==
    /\ shape = None /\ fut = None /\ last = NoCall
    /\ socks = [s \in Sockets |-> [data |-> NoData, cb |-> NoWake]]
    /\ done = {} /\ stepped = {} /\ woken = {}
    /\ NoDriver

InitDeque == NoPolls /\ NoLists

\* A node can be allocated: the list is shorter than MaxLen.
HasFree == \E n \in NodeIds : dlist.nodes[n] = Free

\* The list has not been dropped.
Held == dret.op # "drop"

DPushFront(e) ==
    /\ Held /\ ~diter.active
    /\ HasFree
    /\ dlist' = push_front(dlist, e)
    /\ deque' = <<e>> \o deque
    /\ dret' = Op("push_front", e, NoElem, FALSE, deque)
    /\ UNCHANGED <<diter, svars, socks, pvars, dvars>>

DPushBack(e) ==
    /\ Held /\ ~diter.active
    /\ HasFree
    /\ dlist' = push_back(dlist, e)
    /\ deque' = Append(deque, e)
    /\ dret' = Op("push_back", e, NoElem, FALSE, deque)
    /\ UNCHANGED <<diter, svars, socks, pvars, dvars>>

DPopFront ==
    /\ Held /\ ~diter.active
    /\ LET r == pop_front(dlist)
       IN  /\ dlist' = r.list
           /\ dret' = Op("pop_front", NoElem, r.val, r.panic, deque)
    /\ deque' = IF deque = <<>> THEN deque ELSE Tail(deque)
    /\ UNCHANGED <<diter, svars, socks, pvars, dvars>>

DPopBack ==
    /\ Held /\ ~diter.active
    /\ LET r == pop_back(dlist)
       IN  /\ dlist' = r.list
           /\ dret' = Op("pop_back", NoElem, r.val, r.panic, deque)
    /\ deque' = IF deque = <<>> THEN deque ELSE SubSeq(deque, 1, Len(deque) - 1)
    /\ UNCHANGED <<diter, svars, socks, pvars, dvars>>

DPeekFront ==
    /\ Held /\ ~diter.active
    /\ dret' = Op("peek_front", NoElem, peek_front(dlist), FALSE, deque)
    /\ UNCHANGED <<dlist, deque, diter, svars, socks, pvars, dvars>>

DPeekBack ==
    /\ Held /\ ~diter.active
    /\ dret' = Op("peek_back", NoElem, peek_back(dlist), FALSE, deque)
    /\ UNCHANGED <<dlist, deque, diter, svars, socks, pvars, dvars>>

\* into_iter: the list is moved into an IntoIter.
DIntoIter ==
    /\ Held /\ ~diter.active
    /\ diter' = [active |-> TRUE, orig |-> deque, front |-> <<>>, back |-> <<>>]
    /\ dret' = Op("into_iter", NoElem, NoElem, FALSE, deque)
    /\ UNCHANGED <<dlist, deque, svars, socks, pvars, dvars>>

DNext ==
    /\ Held /\ diter.active
    /\ LET r == IntoIter_next(dlist)
       IN  /\ dlist' = r.list
           /\ dret' = Op("next", NoElem, r.val, r.panic, deque)
           /\ diter' = [diter EXCEPT !.front = IF r.val = NoElem THEN @
                                               ELSE Append(@, r.val)]
    /\ deque' = IF deque = <<>> THEN deque ELSE Tail(deque)
    /\ UNCHANGED <<svars, socks, pvars, dvars>>

DNextBack ==
    /\ Held /\ diter.active
    /\ LET r == IntoIter_next_back(dlist)
       IN  /\ dlist' = r.list
           /\ dret' = Op("next_back", NoElem, r.val, r.panic, deque)
           /\ diter' = [diter EXCEPT !.back = IF r.val = NoElem THEN @
                                              ELSE Append(@, r.val)]
    /\ deque' = IF deque = <<>> THEN deque ELSE SubSeq(deque, 1, Len(deque) - 1)
    /\ UNCHANGED <<svars, socks, pvars, dvars>>

\* The list, or the IntoIter holding it, goes out of scope.
DDrop ==
    /\ Held
    /\ dlist' = List_drop(dlist)
    /\ deque' = <<>>
    /\ dret' = Op("drop", NoElem, NoElem, FALSE, deque)
    /\ diter' = [diter EXCEPT !.active = FALSE]
    /\ UNCHANGED <<svars, socks, pvars, dvars>>

NextDeque ==
    \/ \E e \in Elems : DPushFront(e)
    \/ \E e \in Elems : DPushBack(e)
    \/ DPopFront
    \/ DPopBack
    \/ DPeekFront
    \/ DPeekBack
    \/ DIntoIter
    \/ DNext
    \/ DNextBack
    \/ DDrop

SpecDeque == InitDeque /\ [][NextDeque]_vars

InitStack == NoPolls /\ NoLists

SPush(e) ==
    /\ siter.kind = "none"
    /\ Len(Elements(slist.head)) < MaxLen
    /\ slist' = push(slist, e)
    /\ sref' = <<e>> \o sref
    /\ sret' = Op("push", e, NoElem, FALSE, sref)
    /\ UNCHANGED <<siter, lvars, socks, pvars, dvars>>

SPop ==
    /\ siter.kind = "none"
    /\ LET r == pop(slist)
       IN  /\ slist' = r.list
           /\ sret' = Op("pop", NoElem, r.val, FALSE, sref)
    /\ sref' = IF sref = <<>> THEN sref ELSE Tail(sref)
    /\ UNCHANGED <<siter, lvars, socks, pvars, dvars>>

SPeek ==
    /\ siter.kind = "none"
    /\ sret' = Op("peek", NoElem, peek(slist), FALSE, sref)
    /\ UNCHANGED <<slist, sref, siter, lvars, socks, pvars, dvars>>

\* into_iter: the list is moved into an IntoIter.
SIntoIter ==
    /\ siter.kind = "none"
    /\ slist' = into_iter(slist)
    /\ siter' = [kind |-> "into_iter", cur |-> None, orig |-> sref, yielded |-> <<>>]
    /\ sret' = Op("into_iter", NoElem, NoElem, FALSE, sref)
    /\ UNCHANGED <<sref, lvars, socks, pvars, dvars>>

SIntoIterNext ==
    /\ siter.kind = "into_iter"
    /\ LET r == Stack_IntoIter_next(slist)
       IN  /\ slist' = r.list
           /\ sret' = Op("next", NoElem, r.val, FALSE, sref)
           /\ siter' = [siter EXCEPT !.yielded = IF r.val = NoElem THEN @
                                                 ELSE Append(@, r.val)]
    /\ sref' = IF sref = <<>> THEN sref ELSE Tail(sref)
    /\ UNCHANGED <<lvars, socks, pvars, dvars>>

\* iter and iter_mut borrow the list, which nothing else changes until the
\* iterator is given up.
SIter ==
    /\ siter.kind = "none"
    /\ siter' = [kind |-> "iter", cur |-> iter(slist), orig |-> sref, yielded |-> <<>>]
    /\ sret' = Op("iter", NoElem, NoElem, FALSE, sref)
    /\ UNCHANGED <<slist, sref, lvars, socks, pvars, dvars>>

SIterMut ==
    /\ siter.kind = "none"
    /\ siter' = [kind |-> "iter_mut", cur |-> iter_mut(slist), orig |-> sref,
                 yielded |-> <<>>]
    /\ sret' = Op("iter_mut", NoElem, NoElem, FALSE, sref)
    /\ UNCHANGED <<slist, sref, lvars, socks, pvars, dvars>>

SIterNext ==
    /\ siter.kind = "iter"
    /\ LET r == Iter_next(siter.cur)
       IN  /\ siter' = [siter EXCEPT !.cur = r.cur,
                                     !.yielded = IF r.val = NoElem THEN @
                                                 ELSE Append(@, r.val)]
           /\ sret' = Op("iter_next", NoElem, r.val, FALSE, Elements(siter.cur))
    /\ UNCHANGED <<slist, sref, lvars, socks, pvars, dvars>>

SIterMutNext ==
    /\ siter.kind = "iter_mut"
    /\ LET r == IterMut_next(siter.cur)
       IN  /\ siter' = [siter EXCEPT !.cur = r.cur,
                                     !.yielded = IF r.val = NoElem THEN @
                                                 ELSE Append(@, r.val)]
           /\ sret' = Op("iter_mut_next", NoElem, r.val, FALSE, Elements(siter.cur))
    /\ UNCHANGED <<slist, sref, lvars, socks, pvars, dvars>>

\* The borrowing iterator is given up.
SEndBorrow ==
    /\ siter.kind \in {"iter", "iter_mut"}
    /\ siter' = NoIter
    /\ sret' = Op("end", NoElem, NoElem, FALSE, sref)
    /\ UNCHANGED <<slist, sref, lvars, socks, pvars, dvars>>

NextStack ==
    \/ \E e \in Elems : SPush(e)
    \/ SPop
    \/ SPeek
    \/ SIntoIter
    \/ SIntoIterNext
    \/ SIter
    \/ SIterMut
    \/ SIterNext
    \/ SIterMutNext
    \/ SEndBorrow

SpecStack == InitStack /\ [][NextStack]_vars

---------------------------------------------------------------------------
(* The nodes of a computation, by path.                                    *)

RECURSIVE NodeAt(_, _)
NodeAt(f, p) ==
    IF p = <<>> THEN f
    ELSE LET h == Head(p)
             child == CASE f.kind = "join" /\ h = "a" -> f.a
                        [] f.kind = "join" /\ h = "b" -> f.b
                        [] f.kind = "andthen" /\ h = "first" -> f.first
                        [] f.kind = "andthen" /\ h = "second" -> f.second
                        [] OTHER -> None
         IN  NodeAt(child, Tail(p))

RECURSIVE Paths(_)
Paths(f) ==
    CASE f.kind = "join" ->
            {<<>>} \cup {<<"a">> \o p : p \in Paths(f.a)}
                   \cup {<<"b">> \o p : p \in Paths(f.b)}
      [] f.kind = "andthen" ->
            {<<>>} \cup {<<"first">> \o p : p \in Paths(f.first)}
                   \cup {<<"second">> \o p : p \in Paths(f.second)}
      [] f.kind = "leaf" -> {<<>>}
      [] OTHER -> {}

Joins == {p \in Paths(shape) : NodeAt(shape, p).kind = "join"}
AndThens == {p \in Paths(shape) : NodeAt(shape, p).kind = "andthen"}
Leaves == {p \in Paths(shape) : NodeAt(shape, p).kind = "leaf"}

\* The result the node at p returned in this call is that of the node at q.
SameResult(log, p, q) ==
    \A r \in {"Ready", "Pending"} : Returned(log, p, r) <=> Returned(log, q, r)

---------------------------------------------------------------------------
(* C1: a poll of a Join returns Ready exactly when, by the end of the     *)
(* call, each of its two children has returned Ready (in this call or an  *)
(* earlier one); otherwise it returns Pending.                             *)
C1_JoinReadyIffBothReady ==
    last.called =>
        \A p \in Joins :
            Has(last.log, "poll", p) =>
                /\ Returned(last.log, p, "Ready")
                       <=> (Append(p, "a") \in done /\ Append(p, "b") \in done)
                /\ Returned(last.log, p, "Pending")
                       <=> ~(Append(p, "a") \in done /\ Append(p, "b") \in done)

\* The Join returns Ready in the call in which its last outstanding child
\* returns Ready, after a call that returned Pending.
C1_Witness ==
    /\ last.called /\ last.pre.kind = "join" /\ last.res = "Ready"
    /\ <<"a">> \in last.preDone /\ <<"b">> \notin last.preDone
    /\ Returned(last.log, <<"b">>, "Ready")

(* C2: in a call where the first child of an AndThen returns Pending the  *)
(* AndThen returns Pending and its second child is not polled; a poll of  *)
(* the second child comes after the first child returned Ready.            *)
C2_SecondOnlyAfterFirstReady ==
    last.called =>
        \A p \in AndThens :
            LET q1 == Append(p, "first")
                q2 == Append(p, "second")
            IN  /\ Returned(last.log, q1, "Pending") =>
                       /\ Returned(last.log, p, "Pending")
                       /\ ~Has(last.log, "poll", q2)
                /\ \A i \in Idx(last.log, "poll", q2) :
                       \/ q1 \in last.preDone
                       \/ \E j \in Idx(last.log, "ret", q1) :
                              j < i /\ last.log[j].res = "Ready"
                /\ q2 \in stepped => q1 \in done

\* An AndThen whose first child returned Pending: the second was never polled.
C2_Witness ==
    /\ last.called /\ last.pre.kind = "andthen"
    /\ Returned(last.log, <<"first">>, "Pending")
    /\ <<"second">> \notin stepped

(* C3: in a poll of a Join with both slots occupied, child a is polled    *)
(* before child b, and if a returned Ready its slot has been cleared       *)
(* before b is polled.                                                     *)
C3_JoinVisitsAThenB ==
    last.called =>
        \A p \in Joins :
            LET n == NodeAt(last.pre, p)
                qa == Append(p, "a")
                qb == Append(p, "b")
            IN  (/\ Has(last.log, "poll", p)
                 /\ n.kind = "join" /\ ~is_none(n.a) /\ ~is_none(n.b)) =>
                    /\ Has(last.log, "poll", qa)
                    /\ Has(last.log, "poll", qb)
                    /\ \A i \in Idx(last.log, "poll", qa), j \in Idx(last.log, "poll", qb) :
                           /\ i < j
                           /\ Returned(last.log, qa, "Ready") =>
                                  \E k \in Idx(last.log, "take", qa) : i < k /\ k < j

\* Both children of a Join polled in one call, the first returning Ready.
C3_Witness ==
    /\ last.called /\ last.pre.kind = "join"
    /\ Has(last.log, "poll", <<"a">>) /\ Has(last.log, "poll", <<"b">>)
    /\ Returned(last.log, <<"a">>, "Ready")

(* C4: in the call where the first child of an AndThen returns Ready the  *)
(* first slot is cleared and the second child is polled in that call, the  *)
(* call returning the second child's result; in later calls the first      *)
(* child is not polled, the second is polled once and its result returned. *)
C4_AndThenFallsThrough ==
    last.called =>
        \A p \in AndThens :
            LET q1 == Append(p, "first")
                q2 == Append(p, "second")
                now == NodeAt(fut, p)
            IN  /\ Returned(last.log, q1, "Ready") =>
                       /\ \E k \in Idx(last.log, "take", q1), j \in Idx(last.log, "poll", q2) :
                              k < j
                       /\ now.kind = "andthen" => is_none(now.first)
                       /\ SameResult(last.log, p, q2)
                /\ (Has(last.log, "poll", p) /\ q1 \in last.preDone) =>
                       /\ ~Has(last.log, "poll", q1)
                       /\ Cardinality(Idx(last.log, "poll", q2)) = 1
                       /\ SameResult(last.log, p, q2)

\* A later call of an AndThen, whose first child returned Ready in an
\* earlier call: only the second child is polled.
C4_Witness ==
    /\ last.called /\ last.pre.kind = "andthen"
    /\ <<"first">> \in last.preDone
    /\ Has(last.log, "poll", <<"second">>)
    /\ Returned(last.log, <<>>, "Pending")

(* C5: a slot of a Join goes from Some to None only in the call where its *)
(* child first returns Ready, never goes back to Some, and a child that    *)
(* has returned Ready is not polled again, also in calls made after the    *)
(* Join returned Ready.                                                    *)
C5_JoinSlotsRetireOnce ==
    last.called =>
        \A p \in Joins :
            LET pre == NodeAt(last.pre, p)
                now == NodeAt(fut, p)
                SlotOk(q, before, after) ==
                    /\ Has(last.log, "poll", q) => q \notin last.preDone
                    /\ is_none(before) => is_none(after)
                    /\ (~is_none(before) /\ is_none(after)) =>
                           Returned(last.log, q, "Ready") /\ q \notin last.preDone
                    /\ is_none(after) <=> q \in done
            IN  (pre.kind = "join" /\ now.kind = "join") =>
                    /\ SlotOk(Append(p, "a"), pre.a, now.a)
                    /\ SlotOk(Append(p, "b"), pre.b, now.b)

\* A Join polled again after it returned Ready: both slots were empty.
C5_Witness ==
    /\ last.called /\ last.pre.kind = "join"
    /\ is_none(last.pre.a) /\ is_none(last.pre.b)
    /\ <<>> \in last.preDone

(* C6: when a poll returns Pending, the callback handed to the call was   *)
(* registered in that call with the socket of a leaf that returned Pending *)
(* and that socket still has no data and holds the callback at the end of  *)
(* the call; every leaf that returned Pending registered it just before.   *)
C6_PendingImpliesRegistered ==
    (last.called /\ last.res = "Pending") =>
        /\ \E i \in 1..Len(last.log) :
               /\ last.log[i].op = "register"
               /\ last.log[i].wake = last.wake
               /\ Returned(last.log, last.log[i].at, "Pending")
               /\ last.postSocks[last.log[i].sock].cb = last.wake
               /\ last.postSocks[last.log[i].sock].data = NoData
        /\ \A j \in 1..Len(last.log) :
               (/\ last.log[j].op = "ret" /\ last.log[j].res = "Pending"
                /\ last.log[j].at \in Leaves) =>
                   /\ j > 1
                   /\ last.log[j - 1].op = "register"
                   /\ last.log[j - 1].at = last.log[j].at
                   /\ last.log[j - 1].wake = last.wake
                   /\ last.log[j - 1].sock = NodeAt(shape, last.log[j].at).socket

\* A nested computation returning Pending with one branch already finished.
C6_Witness ==
    /\ last.called /\ last.res = "Pending"
    /\ shape.kind = "join" /\ shape.a.kind = "andthen"
    /\ <<"b">> \in done /\ <<"a", "first">> \in done

(* C7: a poll of a leaf returns Ready(value) exactly when its socket has  *)
(* data at the call, reading the value once and registering nothing;       *)
(* otherwise it registers the callback of the call, which replaces the one *)
(* the socket held, and returns Pending.                                   *)
C7_LeafReadsOrRegisters ==
    last.called =>
        /\ \A i \in 1..Len(last.log) :
               (last.log[i].op = "poll" /\ last.log[i].at \in Leaves) =>
                   LET q == last.log[i].at
                       s == NodeAt(shape, q).socket
                       d == last.log[i].val
                   IN  /\ Len(last.log) >= i + 2
                       /\ IF d # NoData
                          THEN /\ last.log[i + 1] = Ev("read", q, s, NoWake, d)
                               /\ last.log[i + 2] = Ret(q, "Ready", d)
                               /\ ~Has(last.log, "register", q)
                          ELSE /\ last.log[i + 1] = Ev("register", q, s, last.wake, NoData)
                               /\ last.log[i + 2] = Ret(q, "Pending", NoData)
                               /\ ~Has(last.log, "read", q)
        /\ shape.kind = "leaf" =>
               LET s == shape.socket
                   before == last.preSocks[s]
                   after == last.postSocks[s]
               IN  /\ last.res = "Ready" <=> before.data # NoData
                   /\ last.res = "Ready" =>
                          /\ last.val = before.data
                          /\ after = [data |-> NoData, cb |-> before.cb]
                   /\ last.res = "Pending" =>
                          after = [data |-> NoData, cb |-> last.wake]
                   /\ \A t \in Sockets \ {s} : last.postSocks[t] = last.preSocks[t]

\* A leaf returning Pending for the second time, with another callback: the
\* socket holds the later one.
C7_Witness ==
    /\ last.called /\ shape.kind = "leaf" /\ last.res = "Pending"
    /\ last.preSocks[shape.socket].cb \in Wakes \ {last.wake}
    /\ socks[shape.socket].cb = last.wake

---------------------------------------------------------------------------
(* C8: under the driver loop with leaf tasks, a task whose Waker was      *)
(* invoked is stepped again (unless it is dropped first), wherever the     *)
(* invocation falls in the loop's pop/step/suspend sequence; and a leaf    *)
(* task whose socket has data does not stay unfinished: it reaches Ready   *)
(* (or is dropped).                                                        *)
C8_WakeupNotLost ==
    /\ \A tk \in Tasks : Notified(tk) ~> ~Notified(tk)
    /\ \A tk \in Tasks :
           (/\ Live(tk)
            /\ taskFut[tk].kind = "leaf"
            /\ socks[SocketOf(tk)].data # NoData) ~> ~Live(tk)

\* The Waker is invoked after the step returned Pending and before the task
\* has been moved to the wait set.
C8_Witness ==
    /\ dpc = "polled" /\ stepRes = "Pending"
    /\ current \in Tasks
    /\ taskFut[current].kind = "leaf"
    /\ ready[current]
    /\ socks[SocketOf(current)].data # NoData

(* C9: however often a Waker is invoked, its task occurs at most once in  *)
(* the run queue and is never in the run queue and the wait set at once.   *)
C9_QueuedAtMostOnce ==
    \A tk \in Tasks :
        /\ Cardinality({i \in 1..Len(runQueue) : runQueue[i] = tk}) <= 1
        /\ ~(InQueue(tk) /\ tk \in waitSet)
        /\ tk = current => ~InQueue(tk) /\ tk \notin waitSet

\* A Waker invoked twice since the latest step of its task, which is queued.
C9_Witness ==
    \E tk \in Tasks : wakesSince[tk] >= 2 /\ InQueue(tk) /\ tk \in issued

\* An invocation of the Waker of tk, by the socket holding it or by a
\* holder of a clone.
InvokesWaker(tk) ==
    \/ WakeAgain(tk)
    \/ \E s \in Sockets, v \in Values :
           socks[s].cb = WakerOf(tk) /\ SourceFires(s, v)

(* C10: invoking the Waker of a task that has completed or was dropped    *)
(* changes neither the run queue nor the wait set, nor any task, and       *)
(* steps nothing.                                                          *)
C10_StaleWakeIsNoOp ==
    [][\A tk \in Tasks :
           (~Live(tk) /\ InvokesWaker(tk)) =>
               UNCHANGED <<runQueue, waitSet, taskSt, taskFut, ready, current,
                           dpc, stepRes>>]_vars

\* The Waker of a dropped task has been invoked while the other task sleeps
\* and the loop is parked.
C10_Witness ==
    /\ lastWake.stale
    /\ lastWake.task \in Tasks
    /\ taskSt[lastWake.task] = "dropped"
    /\ dpc = "parked"
    /\ waitSet # {}

---------------------------------------------------------------------------
(* C13: a poll of a Join or an AndThen that has already returned Ready     *)
(* polls no child that has itself already returned Ready.                  *)
C13_NoRestepOfRetiredChild ==
    last.called =>
        \A p \in Joins \cup AndThens :
            (p \in last.preDone /\ Has(last.log, "poll", p)) =>
                \A q \in Paths(shape) :
                    (Len(q) = Len(p) + 1 /\ SubSeq(q, 1, Len(p)) = p
                     /\ q \in last.preDone) => ~Has(last.log, "poll", q)

(* C20: a poll of a Join polls each child whose slot is occupied at the    *)
(* start of the call exactly once and a child whose slot is empty not at   *)
(* all, whatever the other child returns; a child that returns Ready is    *)
(* taken out of its slot in that call, also when the other child returned  *)
(* Pending, and a leaf child whose socket has data returns Ready.          *)
C20_JoinStepsEachOccupiedChild ==
    last.called =>
        \A p \in Joins :
            LET pre == NodeAt(last.pre, p)
                now == NodeAt(fut, p)
                ChildOk(q, before, after(_)) ==
                    /\ Cardinality(Idx(last.log, "poll", q))
                           = IF is_none(before) THEN 0 ELSE 1
                    /\ ~is_none(before) =>
                           /\ now.kind = "join" =>
                                  (is_none(after(now)) <=> Returned(last.log, q, "Ready"))
                           /\ Returned(last.log, q, "Ready") => Has(last.log, "take", q)
                           /\ \A i \in Idx(last.log, "poll", q) :
                                  (before.kind = "leaf" /\ last.log[i].val # NoData) =>
                                      Returned(last.log, q, "Ready")
            IN  (Has(last.log, "poll", p) /\ pre.kind = "join") =>
                    /\ ChildOk(Append(p, "a"), pre.a, LAMBDA n : n.a)
                    /\ ChildOk(Append(p, "b"), pre.b, LAMBDA n : n.b)

\* Child a returns Pending for the second time and child b, polled in the
\* same call, returns Ready and is taken out of its slot.
C20_Witness ==
    /\ last.called /\ last.pre.kind = "join"
    /\ last.pre.a.kind = "leaf"
    /\ last.preSocks[last.pre.a.socket].cb \in Wakes
    /\ Returned(last.log, <<"a">>, "Pending")
    /\ Returned(last.log, <<"b">>, "Ready")
    /\ is_none(fut.b) /\ ~is_none(fut.a)

---------------------------------------------------------------------------
\* The log of the step the loop is about to take.
StepLog ==
    Poll(taskFut[current], WakerOf(current), <<>>,
         [socks |-> socks, log |-> <<>>]).env.log

(* C11: block_on of an AndThen whose first leaf needs one wake and whose   *)
(* second leaf is always ready: the root has not completed while the first *)
(* leaf's socket still holds the Waker (or was never handed it); once the  *)
(* socket has fired the root does complete; the second leaf is polled in   *)
(* exactly one step, once, after the first leaf returned Ready.            *)
C11_BlockOnAndThen ==
    /\ [](taskSt[Root] = "done" =>
             /\ Root \in issued
             /\ socks[shape.first.socket].cb = NoWake
             /\ <<Root, <<"first">>>> \in done
             /\ <<Root, <<"second">>>> \in stepped
             /\ <<Root, <<"second">>>> \in done)
    /\ [](<<Root, <<"second">>>> \in stepped => <<Root, <<"first">>>> \in done)
    /\ [][(dpc = "step" /\ dpc' = "polled") =>
              /\ Cardinality(Idx(StepLog, "poll", <<"second">>)) <= 1
              /\ Has(StepLog, "poll", <<"second">>) =>
                     /\ <<Root, <<"second">>>> \notin stepped
                     /\ Returned(StepLog, <<"first">>, "Ready")
                     /\ \A i \in Idx(StepLog, "ret", <<"first">>),
                           j \in Idx(StepLog, "poll", <<"second">>) : i < j
                     /\ stepRes' = "Ready"]_vars
    /\ (socks[shape.first.socket].data # NoData) ~> (taskSt[Root] = "done")

\* block_on has returned: the loop was woken by the first leaf's socket,
\* stepped the root again and stopped.
C11_Witness ==
    /\ dpc = "stopped"
    /\ taskSt[Root] = "done"
    /\ lastWake.task = Root
    /\ <<Root, <<"second">>>> \in stepped

---------------------------------------------------------------------------
(* C12: the loop has stopped only with the run queue and the wait set      *)
(* empty and no task left, and with both empty it can do nothing but stop; *)
(* a task is completed exactly when a step of its root returned Ready, and *)
(* from then on it is in neither the run queue nor the wait set and is not *)
(* stepped again.                                                          *)
C12_LoopEndsWhenNoTaskRemains ==
    /\ [](dpc = "stopped" =>
             /\ runQueue = <<>> /\ waitSet = {} /\ current = NoTask
             /\ \A tk \in Tasks : ~Live(tk))
    /\ []((dpc = "idle" /\ runQueue = <<>> /\ waitSet = {}) =>
             ENABLED Stop /\ ~ENABLED Pop /\ ~ENABLED Park)
    /\ []((runQueue # <<>> \/ waitSet # {}) => ~ENABLED Stop)
    /\ [](\A tk \in Tasks :
             /\ taskSt[tk] = "done" => <<tk, <<>>>> \in done
             /\ <<tk, <<>>>> \in done =>
                    \/ taskSt[tk] = "done"
                    \/ tk = current /\ dpc = "polled" /\ stepRes = "Ready"
             /\ taskSt[tk] = "done" =>
                    ~InQueue(tk) /\ tk \notin waitSet /\ tk # current)
    /\ [][\A tk \in Tasks :
             taskSt[tk] = "done" =>
                 /\ taskSt'[tk] = "done"
                 /\ taskFut'[tk] = taskFut[tk]
                 /\ current' # tk
                 /\ {d \in stepped' : d[1] = tk} = {d \in stepped : d[1] = tk}]_vars

\* Both tasks have returned Ready and the loop has stopped.
C12_Witness ==
    /\ dpc = "stopped"
    /\ \A tk \in Tasks : taskSt[tk] = "done"

\* The ends of a sequence, NoElem when it is empty.
Last(q) == q[Len(q)]
FrontOf(q) == IF q = <<>> THEN NoElem ELSE Head(q)
BackOf(q) == IF q = <<>> THEN NoElem ELSE Last(q)

(* C14: the doubly linked list holds, front to back along next and back to *)
(* front along prev, the elements of the reference sequence; push_front    *)
(* and push_back add at their end, pop_front and pop_back return and       *)
(* remove the element at their end or return None on an empty list, and    *)
(* peek_front and peek_back return it and change nothing.                  *)
C14_ListIsADeque ==
    /\ FrontToBack(dlist) = deque
    /\ BackToFront(dlist) = Reverse(deque)
    /\ ~dret.panic
    /\ dret.op = "push_front" => deque = <<dret.arg>> \o dret.pre
    /\ dret.op = "push_back" => deque = Append(dret.pre, dret.arg)
    /\ dret.op = "pop_front" =>
           /\ dret.val = FrontOf(dret.pre)
           /\ dret.pre # <<>> => deque = Tail(dret.pre)
           /\ dret.pre = <<>> => deque = <<>>
    /\ dret.op = "pop_back" =>
           /\ dret.val = BackOf(dret.pre)
           /\ dret.pre # <<>> => Append(deque, dret.val) = dret.pre
           /\ dret.pre = <<>> => deque = <<>>
    /\ dret.op = "peek_front" => dret.val = FrontOf(deque) /\ deque = dret.pre
    /\ dret.op = "peek_back" => dret.val = BackOf(deque) /\ deque = dret.pre

\* pop_back on a full list built from both ends, whose ends differ.
C14_Witness ==
    /\ dret.op = "pop_back"
    /\ Len(dret.pre) = MaxLen
    /\ dret.val = Last(dret.pre)
    /\ Head(dret.pre) # Last(dret.pre)
    /\ dlist.head # dlist.tail

(* C15: for an IntoIter over a list of n elements, what next() has yielded *)
(* followed by what is left and by what next_back() has yielded, reversed, *)
(* is the original list; next() and next_back() return None exactly when   *)
(* nothing is left, which is once n elements have been yielded.            *)
C15_IntoIterYieldsEachOnce ==
    diter.active =>
        /\ diter.front \o FrontToBack(dlist) \o Reverse(diter.back) = diter.orig
        /\ ~dret.panic
        /\ dret.op \in {"next", "next_back"} =>
               /\ dret.val = NoElem <=> dret.pre = <<>>
               /\ dret.val = NoElem <=>
                      /\ Len(diter.front) + Len(diter.back) = Len(diter.orig)
                      /\ dret.pre = FrontToBack(dlist)
               /\ dret.op = "next" => dret.val = FrontOf(dret.pre)
               /\ dret.op = "next_back" => dret.val = BackOf(dret.pre)

\* Three elements yielded from both ends, and next_back() returns None.
C15_Witness ==
    /\ diter.active
    /\ Len(diter.orig) = MaxLen
    /\ Head(diter.orig) # Last(diter.orig)
    /\ diter.front # <<>> /\ diter.back # <<>>
    /\ dret.op = "next_back" /\ dret.val = NoElem

(* C16: the singly linked list holds the elements of the reference stack,  *)
(* top first; push adds on top, pop returns and removes the top or returns *)
(* None on an empty list, peek returns the top and changes nothing, and    *)
(* the IntoIter yields the elements in pop order and then None.            *)
C16_ListIsAStack ==
    /\ Elements(slist.head) = sref
    /\ sret.op = "push" => sref = <<sret.arg>> \o sret.pre
    /\ sret.op = "pop" =>
           /\ sret.val = FrontOf(sret.pre)
           /\ sret.pre # <<>> => sref = Tail(sret.pre)
           /\ sret.pre = <<>> => sref = <<>>
    /\ sret.op = "peek" => sret.val = FrontOf(sref) /\ sref = sret.pre
    /\ siter.kind = "into_iter" =>
           /\ siter.yielded \o Elements(slist.head) = siter.orig
           /\ sret.op = "next" =>
                  /\ sret.val = FrontOf(sret.pre)
                  /\ sret.val = NoElem <=>
                         /\ Len(siter.yielded) = Len(siter.orig)
                         /\ sret.pre = <<>>

\* The IntoIter over a full list has yielded it all and returns None.
C16_Witness ==
    /\ siter.kind = "into_iter"
    /\ Len(siter.orig) = MaxLen
    /\ Head(siter.orig) # Last(siter.orig)
    /\ siter.yielded = siter.orig
    /\ sret.op = "next" /\ sret.val = NoElem

(* C17: an Iter or IterMut has yielded, in order, the elements from the    *)
(* head up to the node it stands at: what it has yielded followed by what  *)
(* lies ahead is the list, which the traversal leaves as it was; next()    *)
(* returns None exactly when nothing lies ahead, every time.               *)
C17_BorrowingIterators ==
    siter.kind \in {"iter", "iter_mut"} =>
        /\ siter.yielded \o Elements(siter.cur) = siter.orig
        /\ Elements(slist.head) = siter.orig
        /\ sref = siter.orig
        /\ sret.op \in {"iter_next", "iter_mut_next"} =>
               /\ sret.val = FrontOf(sret.pre)
               /\ sret.val = NoElem <=> sret.pre = <<>>
               /\ sret.val = NoElem => siter.yielded = siter.orig /\ is_none(siter.cur)

\* An IterMut over a full list has yielded it all and returns None.
C17_Witness ==
    /\ siter.kind = "iter_mut"
    /\ Len(siter.orig) = MaxLen
    /\ Head(siter.orig) # Last(siter.orig)
    /\ siter.yielded = siter.orig
    /\ sret.op = "iter_mut_next" /\ sret.val = NoElem

(* C18: a task whose step returned Pending is moved to the wait set; a     *)
(* task in the wait set is not stepped; and a task enters the run queue    *)
(* only out of the wait set and only by an invocation of its own Waker,    *)
(* made then or recorded in its flag while it was being stepped.           *)
C18_PendingSleepsUntilWoken ==
    /\ [](\A tk \in waitSet :
             tk # current /\ ~InQueue(tk) /\ taskSt[tk] = "sleeping")
    /\ [][(dpc = "polled" /\ stepRes = "Pending" /\ dpc' # "polled") =>
              /\ current \in waitSet'
              /\ runQueue' = runQueue]_vars
    /\ [][(dpc = "step" /\ dpc' = "polled") =>
              /\ current \notin waitSet
              /\ \A tk \in Tasks \ {current} : taskFut'[tk] = taskFut[tk]]_vars
    /\ [][\A tk \in Tasks :
              (~InQueue(tk) /\ InQueue(tk)') =>
                  /\ tk \in waitSet
                  /\ InvokesWaker(tk) \/ (dpc = "settle" /\ ready[tk])]_vars
    /\ [][\A tk \in Tasks : (~ready[tk] /\ ready'[tk]) => InvokesWaker(tk)]_vars
    /\ [][\A tk \in Tasks :
              (tk \in waitSet /\ tk \notin waitSet') =>
                  InQueue(tk)' \/ taskSt'[tk] = "dropped"]_vars

\* A task sleeps in the wait set, its Waker not invoked since its step
\* returned Pending, while the loop steps the other task.
C18_Witness ==
    \E tk \in Tasks :
        /\ tk \in waitSet /\ tk \in issued /\ wakesSince[tk] = 0
        /\ current \in Tasks \ {tk} /\ dpc = "polled"

---------------------------------------------------------------------------
\* The nodes reached from n along next (at most MaxLen + 1 of them).
RECURSIVE NodePath(_, _, _)
NodePath(nodes, n, fuel) ==
    IF n = NoLink \/ fuel = 0 THEN <<>>
    ELSE <<n>> \o NodePath(nodes, nodes[n].next, fuel - 1)

\* The nodes that exist.
Allocated(l) == {n \in NodeIds : l.nodes[n] # Free}

(* C23: after every operation on the doubly linked list head is None iff   *)
(* tail is None; a list of one node has it as head and tail; the head      *)
(* node has no prev and the tail node no next; next and prev mirror each   *)
(* other at every node; and the walk along next from the head ends at the  *)
(* tail and passes through exactly the existing nodes, whose elements are  *)
(* the stored ones.                                                        *)
C23_LinksConsistent ==
    LET l == dlist
        path == NodePath(l.nodes, l.head, MaxLen + 1)
    IN  dret.op \in {"push_front", "push_back", "pop_front", "pop_back",
                     "next", "next_back"} =>
            /\ l.head = NoLink <=> l.tail = NoLink
            /\ Cardinality(Allocated(l)) = 1 =>
                   l.head = l.tail /\ l.head \in Allocated(l)
            /\ l.head # NoLink =>
                   /\ l.nodes[l.head].prev = NoLink
                   /\ l.nodes[l.tail].next = NoLink
                   /\ path[Len(path)] = l.tail
            /\ \A n \in Allocated(l) :
                   /\ l.nodes[n].next # NoLink => l.nodes[l.nodes[n].next].prev = n
                   /\ l.nodes[n].prev # NoLink => l.nodes[l.nodes[n].prev].next = n
                   /\ l.nodes[n].next = NoLink => l.tail = n
                   /\ l.nodes[n].prev = NoLink => l.head = n
            /\ {path[i] : i \in 1..Len(path)} = Allocated(l)
            /\ Len(path) = Cardinality(Allocated(l))
            /\ [i \in 1..Len(path) |-> l.nodes[path[i]].elem] = deque

\* pop_front has taken a full list down to two nodes, after which the old
\* second node is the head.
C23_Witness ==
    /\ dret.op = "pop_front"
    /\ Len(dret.pre) = MaxLen
    /\ Cardinality(Allocated(dlist)) = MaxLen - 1
    /\ dlist.nodes[dlist.head].prev = NoLink

(* C25: in every state the list can be in, pop_front and pop_back on a     *)
(* non-empty list find exactly one strong reference to the removed node    *)
(* when Rc::try_unwrap runs, so the unwrap does not panic and the node's   *)
(* element is returned; no operation made so far has panicked.  While in   *)
(* the list every node is held by exactly two links.                       *)
C25_UnwrapFindsOneOwner ==
    /\ ~dret.panic
    /\ dlist.head # NoLink =>
           /\ pop_front(dlist).strong = 1
           /\ ~pop_front(dlist).panic
           /\ pop_front(dlist).val = dlist.nodes[dlist.head].elem
    /\ dlist.tail # NoLink =>
           /\ pop_back(dlist).strong = 1
           /\ ~pop_back(dlist).panic
           /\ pop_back(dlist).val = dlist.nodes[dlist.tail].elem
    /\ dret.op # "drop" => \A n \in Allocated(dlist) : dlist.nodes[n].rc = 2

\* pop_back has removed the only node of a one-element list, where head and
\* tail were the same node.
C25_Witness ==
    /\ dret.op = "pop_back"
    /\ Len(dret.pre) = 1
    /\ dret.val = Head(dret.pre)
    /\ Allocated(dlist) = {}
    /\ dlist.head = NoLink /\ dlist.tail = NoLink

(* C24: after the list, or an IntoIter holding it, has been dropped no     *)
(* node exists any more: every node's strong count has reached 0.          *)
C24_DropReleasesEveryNode ==
    dret.op = "drop" => Allocated(dlist) = {}

---------------------------------------------------------------------------
\* The children of the root Join that have not returned Ready, and the
\* socket each of them reads.
Waiting == {c \in {"a", "b"} : ~is_none(taskFut[Root][c])}
SourceOf(c) == shape[c].socket

(* C21: while the root Join sleeps, the socket of every child that has not *)
(* returned Ready holds the root's Waker, also when both children read the *)
(* same socket; when such a socket becomes readable the root enters the    *)
(* run queue; data waiting for such a child is always read in a later step *)
(* of the root, every read makes one more child return Ready, and the root *)
(* is done exactly when both children have returned Ready.                 *)
C21_BothRegistrationsEffective ==
    /\ []((Root \in waitSet /\ ~ready[Root]) =>
             \A c \in Waiting :
                 /\ socks[SourceOf(c)].cb = WakerOf(Root)
                 /\ socks[SourceOf(c)].data = NoData)
    /\ []((Waiting = {}) <=>
             \/ taskSt[Root] = "done"
             \/ current = Root /\ dpc = "polled" /\ stepRes = "Ready")
    /\ [][\A c \in Waiting :
             (/\ Root \in waitSet
              /\ socks[SourceOf(c)].data = NoData
              /\ socks'[SourceOf(c)].data # NoData) =>
                 /\ InQueue(Root)'
                 /\ dpc' # "parked"]_vars
    /\ [][\A s \in Sockets :
             (socks[s].data # NoData /\ socks'[s].data = NoData) =>
                 /\ current = Root
                 /\ dpc = "step"
                 /\ Waiting' \subseteq Waiting
                 /\ \E d \in Waiting : SourceOf(d) = s /\ d \notin Waiting']_vars
    /\ (\E c \in Waiting : socks[SourceOf(c)].data # NoData)
           ~> (\A c \in Waiting : socks[SourceOf(c)].data = NoData)

\* Both children read the same socket: the first has returned Ready on the
\* data that woke the root, the second has registered again and the root
\* sleeps.
C21_Witness ==
    /\ SourceOf("a") = SourceOf("b")
    /\ Root \in waitSet
    /\ Waiting = {"b"}
    /\ lastWake.task = Root
    /\ socks[SourceOf("b")].cb = WakerOf(Root)

---------------------------------------------------------------------------
\* The three leaves of Join(AndThen(learn_song, sing_song), dance).
learn_song == <<"a", "first">>
sing_song == <<"a", "second">>
dance == <<"b">>

(* C22: for Join(AndThen(learn, sing), dance), in every readiness order:   *)
(* sing is polled only after learn has returned Ready; dance is polled     *)
(* once in every poll of the root in which it has not yet returned Ready,  *)
(* also while learn or sing return Pending; within one poll of the root    *)
(* everything done in the learn/sing branch precedes the poll of dance;    *)
(* and the root returns Ready exactly when sing and dance have both        *)
(* returned Ready.                                                         *)
C22_LearnSingDance ==
    (shape.kind = "join" /\ shape.a.kind = "andthen") =>
        /\ sing_song \in stepped => learn_song \in done
        /\ last.called =>
              LET log == last.log
              IN  /\ \A i \in Idx(log, "poll", sing_song) :
                         \/ learn_song \in last.preDone
                         \/ \E j \in Idx(log, "ret", learn_song) :
                                j < i /\ log[j].res = "Ready"
                  /\ Cardinality(Idx(log, "poll", dance))
                         = IF dance \in last.preDone THEN 0 ELSE 1
                  /\ \A i \in Idx(log, "poll", dance) :
                         \A j \in 1..Len(log) :
                             (Len(log[j].at) > 0 /\ log[j].at[1] = "a") => j < i
                  /\ last.res = "Ready" <=> (sing_song \in done /\ dance \in done)
                  /\ last.res = "Ready" <=> (is_none(fut.a) /\ is_none(fut.b))

\* dance returns Ready in a poll of the root in which learn returns Pending
\* and sing has never been polled: dance completes first.
C22_Witness ==
    /\ shape.kind = "join" /\ shape.a.kind = "andthen"
    /\ last.called
    /\ Returned(last.log, learn_song, "Pending")
    /\ Returned(last.log, dance, "Ready")
    /\ sing_song \notin stepped
    /\ dance \in done /\ learn_song \notin done
    /\ last.res = "Pending"

====
